---- MODULE Spec2Model ----
(***************************************************************************)
(* A model of the visitor-logging servers of the repository.               *)
(*                                                                         *)
(* The repository holds four variants of the same Express server           *)
(* (src/server.js, src/unnamed/part_001, part_002, part_003).  part_001    *)
(* and part_002 resolve the client address with their own getClientIP and  *)
(* classify it with isLocalhost; server.js and part_003 take the address   *)
(* from the request-ip package.  All four persist records with the same    *)
(* saveUserData / logToCSV pair.                                           *)
(*                                                                         *)
(* JavaScript strings are TLA+ strings (TLC evaluates Len, Head, Tail,     *)
(* SubSeq and \o on them); the JavaScript values undefined and null are    *)
(* the two reserved strings below, which no input of the model contains.   *)
(***************************************************************************)
EXTENDS Integers, Sequences, FiniteSets, TLC

VARIABLES
    variant,    \* which server file is running
    logFile,    \* data/logs.json: [kind, logs]
    csvFile,    \* data/logs.csv: [exists, lines]
    inflight,   \* requests received and not yet handled
    handled,    \* the handler runs so far, in order: [id, route, arrived, saved]
    response,   \* the response of the latest handler run
    built,      \* what the latest handler run looked up and built
    arg,        \* the argument of a function applied on its own
    ret,        \* its result
    pc          \* "serve" | "crashed" | "call" | "return"

vars == <<variant, logFile, csvFile, inflight, handled, response, built, arg, ret, pc>>

undefined == "<undefined>"
null == "<null>"

(***************************************************************************)
(* String primitives of JavaScript, as the code uses them.                 *)
(***************************************************************************)
SetMin(S) == CHOOSE x \in S : \A y \in S : x <= y
SetMax(S) == CHOOSE x \in S : \A y \in S : x >= y

charAt(s, i) == SubSeq(s, i, i)

IsSpace(c) == c \in {" ", "\t"}

\* String.prototype.trim
trim(s) ==
    LET solid == {i \in 1..Len(s) : ~IsSpace(charAt(s, i))}
    IN  IF solid = {} THEN "" ELSE SubSeq(s, SetMin(solid), SetMax(solid))

\* String.prototype.indexOf, 1-based, 0 when p does not occur
indexOf(s, p) ==
    LET hits == {i \in 1..(Len(s) - Len(p) + 1) : SubSeq(s, i, i + Len(p) - 1) = p}
    IN  IF hits = {} THEN 0 ELSE SetMin(hits)

\* String.prototype.includes
includes(s, p) == indexOf(s, p) # 0

\* String.prototype.startsWith
startsWith(s, p) == Len(s) >= Len(p) /\ SubSeq(s, 1, Len(p)) = p

\* String.prototype.split with a string separator
RECURSIVE split(_, _)
split(s, sep) ==
    LET i == indexOf(s, sep)
    IN  IF i = 0
        THEN <<s>>
        ELSE <<SubSeq(s, 1, i - 1)>> \o split(SubSeq(s, i + Len(sep), Len(s)), sep)

\* String.prototype.replace with a string pattern: the first occurrence only
replace(s, p, r) ==
    LET i == indexOf(s, p)
    IN  IF i = 0
        THEN s
        ELSE SubSeq(s, 1, i - 1) \o r \o SubSeq(s, i + Len(p), Len(s))

\* source.match(/for=([^;]+)/): capture group 1 of the leftmost match, or
\* undefined when the pattern does not match.  The group is greedy: it runs
\* to the next ";" or to the end of the string.
matchFor(s) ==
    LET starts == {i \in 1..(Len(s) - 4) :
                      SubSeq(s, i, i + 3) = "for=" /\ charAt(s, i + 4) # ";"}
    IN  IF starts = {}
        THEN undefined
        ELSE LET i == SetMin(starts)
                 stops == {j \in (i + 4)..Len(s) : charAt(s, j) = ";"}
                 last == IF stops = {} THEN Len(s) ELSE SetMin(stops) - 1
             IN  SubSeq(s, i + 4, last)

\* Number.prototype.toString for 0..255
toDecimal(n) ==
    LET digit(k) == SubSeq("0123456789", k + 1, k + 1)
    IN  IF n < 10 THEN digit(n)
        ELSE IF n < 100 THEN digit(n \div 10) \o digit(n % 10)
        ELSE digit(n \div 100) \o digit((n \div 10) % 10) \o digit(n % 10)

\* The text of an IP address: a dotted quad of decimal numbers, or
\* hexadecimal groups separated by colons (an IPv4 tail allowed).
DecimalDigits == {"0", "1", "2", "3", "4", "5", "6", "7", "8", "9"}
HexDigits == DecimalDigits \cup {"a", "b", "c", "d", "e", "f"}

IsIPv4Text(s) ==
    LET parts == split(s, ".")
    IN  /\ Len(parts) = 4
        /\ \A k \in 1..4 :
              /\ Len(parts[k]) \in 1..3
              /\ \A i \in 1..Len(parts[k]) : charAt(parts[k], i) \in DecimalDigits

IsIPv6Text(s) ==
    /\ includes(s, ":")
    /\ \A i \in 1..Len(s) : charAt(s, i) \in HexDigits \cup {":", "."}

IsParseableIP(s) == IsIPv4Text(s) \/ IsIPv6Text(s)

\* JavaScript truthiness of a string-or-undefined value
truthy(v) == v # undefined /\ v # null /\ v # ""

(***************************************************************************)
(* getClientIP (part_002 67-103, part_001 85-133: the same statements).    *)
(***************************************************************************)
\* A faulty candidate list: x-forwarded-for ahead of cf-connecting-ip.
sources_forwardedForFirst(req) ==
    <<req.xff, req.xri, req.cf, req.fwd, req.ip, req.sock, req.sock>>

\* The candidate list, in the order the loop visits it.  req.connection is
\* Node's alias of req.socket, so the last two entries are the same value.
sources(req) ==
    <<req.cf, req.xri, req.xff, req.fwd, req.ip, req.sock, req.sock>>

\* A faulty loop body: the last entry of a comma-separated list.
normalizeSource_lastEntry(source) ==
    LET ip0 == trim(source)
        ips == split(source, ",")
        ip1 == IF includes(source, ",") THEN trim(ips[Len(ips)]) ELSE ip0
        m   == matchFor(source)
        ip2 == IF includes(source, "for=") /\ truthy(m) THEN trim(m) ELSE ip1
    IN  trim(replace(ip2, "::ffff:", ""))

\* The body of the loop for one truthy source: the value tested at the end.
normalizeSource(source) ==
    LET ip0 == trim(source)
        ips == split(source, ",")
        ip1 == IF includes(source, ",") THEN trim(ips[1]) ELSE ip0
        m   == matchFor(source)
        ip2 == IF includes(source, "for=") /\ truthy(m) THEN trim(m) ELSE ip1
    IN  trim(replace(ip2, "::ffff:", ""))

\* The test that ends the loop
accepted(ip) == ip # "" /\ ip # "::1" /\ ip # "127.0.0.1"

\* A faulty fallback: the IPv6 loopback.
fallbackIP_ipv6 == "::1"

fallbackIP == "127.0.0.1"

RECURSIVE scanSources(_, _)
scanSources(list, i) ==
    IF i > Len(list)
    THEN fallbackIP
    ELSE IF truthy(list[i]) /\ accepted(normalizeSource(list[i]))
         THEN normalizeSource(list[i])
         ELSE scanSources(list, i + 1)

getClientIP(req) == scanSources(sources(req), 1)

(***************************************************************************)
(* isLocalhost (part_002 44-64, part_001 43-82).                           *)
(***************************************************************************)
localIPs == {"127.0.0.1", "::1", "localhost"}

\* A faulty prefix table: the 172.16-172.29 prefixes cut to "172.1", "172.2".
privateIPRanges_shortPrefixes ==
    {"192.168.", "10.", "172.1", "172.2", "172.30.", "172.31."}

privateIPRanges ==
    {"192.168.", "10.", "172.16.", "172.17.", "172.18.", "172.19.",
     "172.20.", "172.21.", "172.22.", "172.23.", "172.24.", "172.25.",
     "172.26.", "172.27.", "172.28.", "172.29.", "172.30.", "172.31."}

isLocalhost(ip) ==
    IF ~truthy(ip)
    THEN TRUE
    ELSE LET a == replace(trim(ip), "::ffff:", "")
         IN  a \in localIPs \/ \E range \in privateIPRanges : startsWith(a, range)

(***************************************************************************)
(* The files and the idle server, as every specification starts them.      *)
(***************************************************************************)
AbsentLog == [kind |-> "absent", logs |-> <<>>]
AbsentCsv == [exists |-> FALSE, lines |-> <<>>]
NoGeo == <<>>
NoResponse ==
    [id |-> 0, route |-> "none", status |-> 0, body |-> "none", success |-> FALSE,
     setCookie |-> undefined, sessionId |-> undefined, timestamp |-> undefined,
     ip |-> undefined, isLocalhost |-> undefined,
     total |-> <<>>, logs |-> <<>>, stats |-> <<>>,
     hourlyData |-> <<>>, uniqueVisitors |-> <<>>, file |-> <<>>]
NothingBuilt ==
    [id |-> 0, cookie |-> undefined, ua |-> undefined, lookup |-> NoGeo,
     userData |-> <<>>]

ServerIdle ==
    /\ logFile = AbsentLog
    /\ csvFile = AbsentCsv
    /\ inflight = {}
    /\ handled = <<>>
    /\ response = NoResponse
    /\ built = NothingBuilt

ServerUntouched ==
    UNCHANGED <<variant, logFile, csvFile, inflight, handled, response, built>>

(***************************************************************************)
(* getClientIP applied on its own to every request of ResolverRequests.    *)
(***************************************************************************)
MaxJunkLen == 3

\* Every string of at most n characters over a space, a comma and a digit:
\* the shapes a malformed or partly empty forwarded-for list can take.
RECURSIVE JunkStrings(_)
JunkStrings(n) ==
    IF n = 0
    THEN {""}
    ELSE LET shorter == JunkStrings(n - 1)
         IN  shorter \cup {s \o c : s \in shorter, c \in {" ", ",", "7"}}

CfValues == {undefined, "9.9.9.9", " ::ffff:127.0.0.1 "}
XriValues == {undefined, "::1", "8.8.4.4"}
XffValues ==
    {undefined, "203.0.113.5, 70.41.3.18", "1.1.1.1, 2.2.2.2",
     "127.0.0.1, 8.8.8.8", "::ffff:10.0.0.5,1.1.1.1", "unknown"}
    \cup JunkStrings(MaxJunkLen)
FwdValues ==
    {undefined, "for=198.51.100.23;proto=https",
     "for=198.51.100.23;proto=https, for=10.1.1.1",
     "for=192.0.2.43, for=198.51.100.17",
     "proto=http;for= ::ffff:127.0.0.1 ;by=203.0.113.43",
     "for=;proto=http"}
IpValues == {undefined, "::ffff:127.0.0.1", "::ffff:192.168.1.50"}
SockValues == {undefined, "::ffff:172.20.3.4"}

ResolverRequests ==
    [cf : CfValues, xri : XriValues, xff : XffValues, fwd : FwdValues,
     ip : IpValues, sock : SockValues]

InitResolver ==
    /\ variant = "part_002"
    /\ ServerIdle
    /\ arg \in ResolverRequests
    /\ ret = undefined
    /\ pc = "call"

CallGetClientIP ==
    /\ pc = "call"
    /\ ret' = getClientIP(arg)
    /\ pc' = "return"
    /\ UNCHANGED arg
    /\ ServerUntouched

NextResolver == CallGetClientIP

SpecResolver == InitResolver /\ [][NextResolver]_vars

(***************************************************************************)
(* The six sources by name, in the order the contract gives them, and the  *)
(* source that wins: the first one whose normalized value is non-empty and *)
(* not a loopback literal.                                                 *)
(***************************************************************************)
PriorityOrder == <<"cf", "xri", "xff", "fwd", "ip", "sock">>
LoopbackLiterals == {"127.0.0.1", "::1"}

Usable(v) ==
    truthy(v) /\ LET n == normalizeSource(v) IN n # "" /\ n \notin LoopbackLiterals

Winners(req) == {i \in 1..Len(PriorityOrder) : Usable(req[PriorityOrder[i]])}

WinningSource(req) ==
    LET w == Winners(req)
    IN  IF w = {} THEN undefined ELSE req[PriorityOrder[SetMin(w)]]

OnlySource(req, name) ==
    \A i \in 1..Len(PriorityOrder) :
        PriorityOrder[i] # name => req[PriorityOrder[i]] = undefined

\* C1: getClientIP returns the normalized value of the highest-priority
\* source (cf-connecting-ip, x-real-ip, x-forwarded-for, forwarded, req.ip,
\* socket address) whose normalized value is non-empty and not a loopback
\* address; a loopback value in a higher-priority source does not stop the
\* search.
C1_HighestPrioritySourceWins ==
    pc = "return" =>
        LET w == WinningSource(arg)
        IN  w # undefined => ret = normalizeSource(w)

C1_Witness ==
    /\ pc = "return"
    /\ arg.cf = "9.9.9.9"
    /\ arg.xff = "1.1.1.1, 2.2.2.2"
    /\ ret = "9.9.9.9"

\* C2: when the winning source is a comma-separated forwarded-for chain,
\* the result is its first entry, trimmed (and without the IPv4-in-IPv6
\* prefix), never a later entry and never the whole list.
C2_FirstEntryOfChain ==
    LET w == WinningSource(arg)
        first == SubSeq(w, 1, indexOf(w, ",") - 1)
    IN  (pc = "return" /\ w # undefined /\ includes(w, ",") /\ ~includes(w, "for="))
            => /\ ret = trim(replace(trim(first), "::ffff:", ""))
               /\ ~includes(ret, ",")

C2_Witness ==
    /\ pc = "return"
    /\ arg.xff = "203.0.113.5, 70.41.3.18"
    /\ OnlySource(arg, "xff")
    /\ ret = "203.0.113.5"

\* The address of the first for= parameter of a forwarded header: the text
\* after "for=" up to the next ";" (the next parameter) or "," (the next
\* element), trimmed, without the IPv4-in-IPv6 prefix.
ForAddress(w) ==
    LET rest == SubSeq(w, indexOf(w, "for=") + 4, Len(w))
        ends == {j \in 1..Len(rest) : charAt(rest, j) \in {";", ","}}
        addr == IF ends = {} THEN rest ELSE SubSeq(rest, 1, SetMin(ends) - 1)
    IN  trim(replace(trim(addr), "::ffff:", ""))

\* C3: when the winning source is an RFC-7239 forwarded header, the result
\* is exactly the address after the first for=, without the parameter name,
\* without the parameters that follow it and without any further
\* comma-separated for= element.
C3_ForParameterAddress ==
    LET w == WinningSource(arg)
    IN  (pc = "return" /\ w # undefined /\ includes(w, "for=") /\ ForAddress(w) # "")
            => ret = ForAddress(w)

\* C4: if every source is absent, empty or normalizes to a loopback
\* address, getClientIP returns "127.0.0.1"; it always returns a value.
C4_LoopbackFallback ==
    pc = "return" =>
        /\ truthy(ret)
        /\ (\A i \in 1..Len(PriorityOrder) :
                LET v == arg[PriorityOrder[i]]
                IN  v = undefined \/ v = "" \/ normalizeSource(v) \in LoopbackLiterals)
            => ret = "127.0.0.1"

C4_Witness ==
    /\ pc = "return"
    /\ arg.cf = " ::ffff:127.0.0.1 "
    /\ arg.xri = "::1"
    /\ arg.xff = ""
    /\ arg.fwd = undefined
    /\ arg.ip = "::ffff:127.0.0.1"
    /\ arg.sock = undefined
    /\ ret = "127.0.0.1"

\* C5: an x-forwarded-for value with no parseable address after
\* normalization is treated as an empty source: the result is the one the
\* same request gives without that header.
C5_MalformedForwardedForSkipped ==
    (pc = "return" /\ truthy(arg.xff) /\ ~IsParseableIP(normalizeSource(arg.xff)))
        => ret = getClientIP([arg EXCEPT !.xff = undefined])

(***************************************************************************)
(* isLocalhost applied on its own: to every dotted quad of LocalityQuads,  *)
(* bare, with the IPv4-in-IPv6 prefix and padded, and to the values that   *)
(* are no dotted quad.                                                     *)
(***************************************************************************)
FirstOctets == {8, 9, 10, 11, 100, 126, 127, 171, 172, 173, 191, 192, 193}
SecondOctets == {0, 1, 8, 15, 16, 17, 20, 31, 32, 160, 167, 168, 169, 255}
LastOctets == {<<0, 1>>, <<0, 5>>, <<1, 50>>, <<3, 4>>, <<8, 8>>}

dotted(q) ==
    toDecimal(q[1]) \o "." \o toDecimal(q[2]) \o "." \o toDecimal(q[3])
        \o "." \o toDecimal(q[4])

LocalityQuads ==
    {<<a, b, cd[1], cd[2]>> : a \in FirstOctets, b \in SecondOctets, cd \in LastOctets}

LocalityTexts ==
    {undefined, null, "", " ", "::1", " ::1 ", "::ffff:::1", "localhost",
     "fe80::1", "2001:db8::1", "::ffff:", "0.0.0.0"}

LocalityInputs ==
    {[quad |-> q, ip |-> pre \o dotted(q) \o post] :
        q \in LocalityQuads, pre \in {"", "::ffff:", " "}, post \in {"", " "}}
    \cup {[quad |-> <<>>, ip |-> t] : t \in LocalityTexts}

InitLocality ==
    /\ variant = "part_002"
    /\ ServerIdle
    /\ arg \in LocalityInputs
    /\ ret = FALSE
    /\ pc = "call"

CallIsLocalhost ==
    /\ pc = "call"
    /\ ret' = isLocalhost(arg.ip)
    /\ pc' = "return"
    /\ UNCHANGED arg
    /\ ServerUntouched

NextLocality == CallIsLocalhost

SpecLocality == InitLocality /\ [][NextLocality]_vars

\* The loopback address and the three RFC-1918 blocks, on the octets.
InPrivateBlocks(q) ==
    \/ q = <<127, 0, 0, 1>>
    \/ q[1] = 10
    \/ q[1] = 172 /\ q[2] >= 16 /\ q[2] <= 31
    \/ q[1] = 192 /\ q[2] = 168

\* C6: isLocalhost(ip) is true exactly when ip is null or empty, or (after
\* trimming and stripping the ::ffff: prefix) is a loopback literal, or lies
\* in 10.0.0.0/8, 172.16.0.0-172.31.255.255 or 192.168.0.0/16; it is false
\* for every other address.
C6_LocalExactlyLoopbackOrPrivate ==
    pc = "return" =>
        (ret <=> IF arg.quad # <<>>
                 THEN InPrivateBlocks(arg.quad)
                 ELSE \/ ~truthy(arg.ip)
                      \/ replace(trim(arg.ip), "::ffff:", "")
                            \in {"127.0.0.1", "::1", "localhost"})

C6_Witness ==
    /\ pc = "return"
    /\ arg.quad = <<172, 20, 3, 4>>
    /\ arg.ip = "172.20.3.4"
    /\ ret = TRUE

(***************************************************************************)
(* The server.                                                             *)
(***************************************************************************)
Variants == {"server.js", "part_001", "part_002", "part_003"}

\* part_001 and part_002 define getClientIP and isLocalhost; server.js and
\* part_003 call requestIp.getClientIp and have no locality notion.
ownResolver(v) == v \in {"part_001", "part_002"}

\* server.js requires ./fingerprint while loading (line 14).  The top level
\* of fingerprint.js calls document.addEventListener (line 549); Node has
\* no global document, so the require throws a ReferenceError and server.js
\* never reaches app.listen.
startsUp(v) == v # "server.js"

MaxRequests == 2

\* The routes of the server.  part_003 (29-36) and server.js (42) put a
\* rate limiter before /api/: 100 requests in 15 minutes, which the runs
\* here, of at most MaxRequests requests, never reach.
Routes == {"page", "collect", "delete", "logs", "stats", "csv"}

NoHeaders ==
    [cf |-> undefined, xri |-> undefined, xff |-> undefined, fwd |-> undefined,
     ip |-> undefined, sock |-> undefined, cookie |-> undefined,
     ua |-> undefined]

\* A request whose socket is already closed (no address anywhere, no
\* header), one sent by a browser through a proxy on the private network
\* and carrying a session cookie, and one made with a command-line client
\* directly from the local network, with a sessionId cookie of no text.
ServedRequests ==
    {NoHeaders,
     [NoHeaders EXCEPT !.xff = "203.0.113.5, 70.41.3.18", !.ip = "203.0.113.5",
                       !.sock = "::ffff:10.0.0.5", !.cookie = "sess_0_c",
                       !.ua = "Mozilla/5.0 (Windows NT 10.0; Win64; x64) Chrome/120.0"],
     [NoHeaders EXCEPT !.ip = "::ffff:192.168.1.50", !.sock = "::ffff:192.168.1.50",
                       !.cookie = "",
                       !.ua = "curl/8.4.0"]}

\* geoip.lookup: what the database holds for an address is not the code's
\* to decide; a miss is null.
GeoLookups == {NoGeo, <<[country |-> "US", region |-> ""]>>}

\* Math.random().toString(36).substr(2, 9)
Randoms == {"a", "b"}

\* new Date().toISOString() at tick t of the server's clock; the ticks are
\* half an hour apart and tick 0 is 10:00 on the first of May.
toISOString(t) ==
    LET padStart(n) == IF n < 10 THEN "0" \o toDecimal(n) ELSE toDecimal(n)
        hours == 10 + t \div 2
    IN  "2024-05-" \o padStart(1 + hours \div 24) \o "T" \o padStart(hours % 24)
            \o ":" \o (IF t % 2 = 0 THEN "00" ELSE "30") \o ":00.000Z"

\* new UAParser().setUA(userAgent).getResult() of the ua-parser-js package,
\* on the user agents the model carries: the names it finds, undefined for
\* what it does not find.
UAParser_getResult(userAgent) ==
    [browser |-> IF includes(userAgent, "Chrome/") THEN "Chrome" ELSE undefined,
     os |-> IF includes(userAgent, "Windows NT") THEN "Windows" ELSE undefined,
     device |-> undefined]

\* const uaResult = parser.setUA(req.headers['user-agent'] || '').getResult()
\* (part_002 153-158), for each request the server is sent.
uaResultOf ==
    [req \in ServedRequests |->
        UAParser_getResult(IF truthy(req.ua) THEN req.ua ELSE "")]

\* generateSessionId (part_002 292-294)
generateSessionId(now, rnd) == "sess_" \o toDecimal(now) \o "_" \o rnd

\* requestIp.getClientIp of the request-ip package, on the sources the model
\* carries: the first entry of x-forwarded-for that is an IP address, then
\* cf-connecting-ip, x-real-ip and the socket address; null when none is an
\* IP address.
requestIp_getClientIp(req) ==
    LET entries == IF truthy(req.xff) THEN split(req.xff, ",") ELSE <<>>
        valid == {k \in 1..Len(entries) : IsParseableIP(trim(entries[k]))}
        fromXff == IF valid = {} THEN null ELSE trim(entries[SetMin(valid)])
        order == <<fromXff, req.cf, req.xri, req.sock>>
        found == {k \in 1..Len(order) : truthy(order[k]) /\ IsParseableIP(order[k])}
    IN  IF found = {} THEN null ELSE order[SetMin(found)]

\* geoip.lookup(ip): null for a falsy address, else what the database holds
geoipLookup(ip, held) == IF truthy(ip) THEN held ELSE NoGeo

jsBoolean(b) == IF b THEN "true" ELSE "false"

orUnknown(x) == IF truthy(x) THEN x ELSE "Unknown"

\* The geo of a local address: the placeholder when the lookup misses
\* (part_002 163-175)
localGeo(clientIP, lookup) ==
    IF isLocalhost(clientIP) /\ lookup = NoGeo
    THEN <<[country |-> "Localhost", region |-> "Development"]>>
    ELSE lookup

\* const clientIP = getClientIP(req) (part_002 152), or
\* const ip = requestIp.getClientIp(req) (part_003 54), for each request
\* the server is sent.
clientIPOf ==
    [v \in Variants, req \in ServedRequests |->
        IF ownResolver(v) THEN getClientIP(req) ELSE requestIp_getClientIp(req)]

\* A faulty choice of session id: a fresh one for every record.
sessionIdFor_alwaysFresh(cookie, freshId) == freshId

\* sessionId: req.cookies.sessionId || generateSessionId() (part_002 183)
sessionIdFor(cookie, freshId) == IF truthy(cookie) THEN cookie ELSE freshId

\* A faulty GET /: the session cookie is set on every response.
sessionCookie_always(cookie, freshId) == freshId

\* if (!req.cookies.sessionId) res.cookie('sessionId', generateSessionId(),
\* ...) (part_002 459-466): the cookie the response sets, if it sets one
sessionCookie(cookie, freshId) == IF truthy(cookie) THEN undefined ELSE freshId

\* collectEnhancedUserData (part_002 151-289, part_001 136-259,
\* part_003 53-154): the fields of the record the model keeps.  held is
\* what the geo database holds for the resolved address, freshId what
\* generateSessionId returns if it is called.
collectEnhancedUserData(v, r, now, held, freshId) ==
    LET userData(clientIP, geo) ==
            [rid |-> r.id,
             timestamp |-> toISOString(now),
             sessionId |-> sessionIdFor(r.req.cookie, freshId),
             ip |-> clientIP,
             isLocalhost |-> IF ownResolver(v)
                             THEN jsBoolean(isLocalhost(clientIP))
                             ELSE undefined,
             geo |-> IF geo = NoGeo \/ ~ownResolver(v)
                     THEN geo
                     ELSE <<[country |-> orUnknown(geo[1].country),
                             region |-> orUnknown(geo[1].region)]>>,
             browser |-> IF ownResolver(v)
                         THEN orUnknown(uaResultOf[r.req].browser)
                         ELSE uaResultOf[r.req].browser,
             os |-> IF ownResolver(v)
                    THEN orUnknown(uaResultOf[r.req].os)
                    ELSE uaResultOf[r.req].os,
             device |-> IF truthy(uaResultOf[r.req].device)
                        THEN uaResultOf[r.req].device
                        ELSE "desktop"]
        located(clientIP, lookup) ==
            userData(clientIP,
                     IF ownResolver(v) THEN localGeo(clientIP, lookup) ELSE lookup)
        resolved(clientIP) == located(clientIP, geoipLookup(clientIP, held))
    IN  resolved(clientIPOf[v, r.req])

\* The first try block of saveUserData: the parsed content of logs.json.
\* An absent, blank or unparseable file leaves logs = []; parseable JSON
\* that is no array is kept as it is.
readLogFile(file) ==
    CASE file.kind = "array" -> [isArray |-> TRUE, items |-> file.logs]
      [] file.kind = "nonarray" -> [isArray |-> FALSE, items |-> <<>>]
      [] OTHER -> [isArray |-> TRUE, items |-> <<>>]

\* A faulty saveUserData: the file is rewritten with the new record alone.
saveUserData_newRecordOnly(file, userData, writeOk) ==
    LET parsed == readLogFile(file)
    IN  IF ~parsed.isArray
        THEN [threw |-> TRUE, saved |-> FALSE, file |-> file]
        ELSE IF writeOk
             THEN [threw |-> FALSE, saved |-> TRUE,
                   file |-> [kind |-> "array", logs |-> <<userData>>]]
             ELSE [threw |-> FALSE, saved |-> FALSE, file |-> file]

\* A faulty saveUserData: logs.unshift instead of logs.push.
saveUserData_unshift(file, userData, writeOk) ==
    LET parsed == readLogFile(file)
    IN  IF ~parsed.isArray
        THEN [threw |-> TRUE, saved |-> FALSE, file |-> file]
        ELSE IF writeOk
             THEN [threw |-> FALSE, saved |-> TRUE,
                   file |-> [kind |-> "array", logs |-> <<userData>> \o parsed.items]]
             ELSE [threw |-> FALSE, saved |-> FALSE, file |-> file]

\* saveUserData (part_002 347-379): read, parse, push, rewrite.  logs.push
\* on a parsed value that is no array throws out of the function; a failed
\* write is caught and logged, and the file stays as it was.
saveUserData(file, userData, writeOk) ==
    LET parsed == readLogFile(file)
    IN  IF ~parsed.isArray
        THEN [threw |-> TRUE, saved |-> FALSE, file |-> file]
        ELSE IF writeOk
             THEN [threw |-> FALSE, saved |-> TRUE,
                   file |-> [kind |-> "array", logs |-> Append(parsed.items, userData)]]
             ELSE [threw |-> FALSE, saved |-> FALSE, file |-> file]

CsvHeader == [rid |-> 0, ip |-> "ip"]

\* A faulty logToCSV: writeFileSync in place of appendFileSync, so that the
\* file holds the header and the latest row.
logToCSV_rewrite(csv, userData, csvOk) ==
    IF ~csvOk
    THEN csv
    ELSE [exists |-> TRUE,
          lines |-> <<CsvHeader, [rid |-> userData.rid, ip |-> userData.ip]>>]

\* A faulty logToCSV: the header line before every row.
logToCSV_headerEachTime(csv, userData, csvOk) ==
    IF ~csvOk
    THEN csv
    ELSE [exists |-> TRUE,
          lines |-> (IF csv.exists THEN csv.lines ELSE <<>>)
                        \o <<CsvHeader, [rid |-> userData.rid, ip |-> userData.ip]>>]

\* logToCSV (part_002 382-420): the header when the file is absent, then
\* one row; a failure is caught and logged.
logToCSV(csv, userData, csvOk) ==
    IF ~csvOk
    THEN csv
    ELSE [exists |-> TRUE,
          lines |-> (IF csv.exists THEN csv.lines ELSE <<CsvHeader>>)
                        \o <<[rid |-> userData.rid, ip |-> userData.ip]>>]

\* Array.prototype.slice(-n): the last n elements, all of them when there
\* are fewer
sliceLast(logs, n) ==
    SubSeq(logs, IF Len(logs) > n THEN Len(logs) - n + 1 ELSE 1, Len(logs))

\* Array.prototype.reverse
reverse(logs) == [i \in 1..Len(logs) |-> logs[Len(logs) + 1 - i]]

\* The object a forEach loop fills with obj[key] = (obj[key] || 0) + 1
\* for the keys of the records, in the order of the log
countBy(keys) ==
    [k \in {keys[i] : i \in 1..Len(keys)} |->
        Cardinality({i \in 1..Len(keys) : keys[i] = k})]

browserKey(log) == orUnknown(log.browser)
deviceKey(log) == IF truthy(log.device) THEN log.device ELSE "desktop"
countryKey(log) ==
    IF log.geo # NoGeo /\ truthy(log.geo[1].country)
    THEN log.geo[1].country
    ELSE "Unknown"
osKey(log) == orUnknown(log.os)

\* new Date(log.timestamp).toISOString().slice(0, 13) + ':00': a stored
\* timestamp is the text toISOString wrote, which Date parses back to the
\* same instant.
hourKey(log) == SubSeq(log.timestamp, 1, 13) \o ":00"

\* [...new Set(logs.map(log => log.network.ip))].length
uniqueIPs(logs) == Cardinality({logs[i].ip : i \in 1..Len(logs)})

\* A faulty window: 50 records in every variant.
logsWindow_fifty(v) == 50

\* The n of logs.slice(-n) in app.get('/api/logs'): part_002 522,
\* part_001 430, part_003 313, server.js 415
logsWindow(v) == IF v = "part_002" THEN 100 ELSE 50

\* What the reading routes get from logs.json: nothing when the file is
\* absent, the array when it holds one; JSON.parse throws on blank or
\* corrupt text, and logs.map / logs.forEach throw on a value that is no
\* array.
readForView(file) ==
    CASE file.kind = "absent" -> "absent"
      [] file.kind = "array" -> "array"
      [] OTHER -> "throws"

\* app.get('/api/logs') (part_002 475-538): the fields of the response
apiLogs(v, file) ==
    CASE readForView(file) = "absent" ->
            [NoResponse EXCEPT !.route = "logs", !.body = "json", !.status = 200,
                               !.success = TRUE, !.total = <<0>>]
      [] readForView(file) = "array" ->
            [NoResponse EXCEPT
                !.route = "logs", !.body = "json", !.status = 200,
                !.success = TRUE,
                !.total = <<Len(file.logs)>>,
                !.logs = reverse(sliceLast(file.logs, logsWindow(v))),
                !.stats = <<[total |-> Len(file.logs),
                             uniqueIPs |-> uniqueIPs(file.logs),
                             browsers |->
                                 countBy([i \in 1..Len(file.logs) |-> browserKey(file.logs[i])]),
                             devices |->
                                 countBy([i \in 1..Len(file.logs) |-> deviceKey(file.logs[i])]),
                             countries |->
                                 countBy([i \in 1..Len(file.logs) |-> countryKey(file.logs[i])]),
                             os |->
                                 countBy([i \in 1..Len(file.logs) |-> osKey(file.logs[i])])]>>]
      [] OTHER ->
            [NoResponse EXCEPT !.route = "logs", !.body = "json", !.status = 500]

\* Which variants answer uniqueVisitors: part_002 561, part_001 470; the
\* stats route of part_003 (346-350) and server.js (448-452) has no such
\* field.
countsVisitors(v) == v \in {"part_001", "part_002"}

\* app.get('/api/stats') (part_002 541-593): the fields of the response
apiStats(v, file) ==
    CASE readForView(file) = "absent" ->
            [NoResponse EXCEPT
                !.route = "stats", !.body = "json", !.status = 200,
                !.success = TRUE, !.total = <<0>>,
                !.uniqueVisitors = IF countsVisitors(v) THEN <<0>> ELSE <<>>]
      [] readForView(file) = "array" ->
            [NoResponse EXCEPT
                !.route = "stats", !.body = "json", !.status = 200,
                !.success = TRUE,
                !.total = <<Len(file.logs)>>,
                !.hourlyData =
                    countBy([i \in 1..Len(file.logs) |-> hourKey(file.logs[i])]),
                !.uniqueVisitors = IF countsVisitors(v)
                                   THEN <<uniqueIPs(file.logs)>>
                                   ELSE <<>>]
      [] OTHER ->
            [NoResponse EXCEPT !.route = "stats", !.body = "json", !.status = 500]

\* app.get('/api/logs/csv') (part_002 619-637): the file, or 404
apiLogsCsv(csv) ==
    IF csv.exists
    THEN [NoResponse EXCEPT !.route = "csv", !.body = "file", !.status = 200,
                            !.file = csv.lines]
    ELSE [NoResponse EXCEPT !.route = "csv", !.body = "json", !.status = 404]

\* The stored records: the content of logs.json when it is a JSON array.
Logs == IF logFile.kind = "array" THEN logFile.logs ELSE <<>>

InitialLogs ==
    {AbsentLog,
     [kind |-> "blank", logs |-> <<>>],
     [kind |-> "corrupt", logs |-> <<>>],
     [kind |-> "nonarray", logs |-> <<>>],
     [kind |-> "array", logs |-> <<>>]}

\* The record of a visit the server stored before it was last started:
\* the browser behind the proxy, found in the geo database then.
Browser == CHOOSE req \in ServedRequests : truthy(req.cookie)
OldRecord(v) ==
    collectEnhancedUserData(v, [id |-> 0, req |-> Browser], 0,
                            <<[country |-> "US", region |-> ""]>>, undefined)

\* data/ as that earlier run left it: the record in logs.json, its row in
\* logs.csv.
StoredBefore(v) == [kind |-> "array", logs |-> <<OldRecord(v)>>]
MirroredBefore(v) == logToCSV(AbsentCsv, OldRecord(v), TRUE)

Init ==
    /\ variant \in Variants
    /\ logFile \in InitialLogs \cup {StoredBefore(variant)}
    /\ csvFile = IF logFile = StoredBefore(variant)
                 THEN MirroredBefore(variant)
                 ELSE AbsentCsv
    /\ inflight = {}
    /\ handled = <<>>
    /\ response = NoResponse
    /\ built = NothingBuilt
    /\ arg = undefined
    /\ ret = undefined
    /\ pc = IF startsUp(variant) THEN "serve" ELSE "crashed"

Received == Cardinality(inflight) + Len(handled)

\* A client's request reaches the server and waits for its handler; the
\* handlers of waiting requests run one at a time, in any order.
Receive ==
    /\ pc = "serve"
    /\ Received < MaxRequests
    /\ \E route \in Routes, req \in ServedRequests :
          /\ route \notin {"page", "collect"} => req = NoHeaders
          /\ inflight' = inflight \cup
                {[id |-> Received + 1, route |-> route, req |-> req,
                  arrived |-> Len(handled)]}
    /\ UNCHANGED <<variant, logFile, csvFile, handled, response, built, arg, ret, pc>>

\* The handler runs so far: saved tells whether the run rewrote logs.json,
\* io whether a file call of the run failed.
Ran(r, saved, io) ==
    Append(handled, [id |-> r.id, route |-> r.route, arrived |-> r.arrived,
                     saved |-> saved, io |-> io])

\* Whether saveUserData, run with these outcomes of its file calls, met a
\* failing one: the write when it got that far, the CSV append after it.
saveFailed(save, writeOk, csvOk) ==
    (~save.threw /\ ~writeOk) \/ (save.saved /\ ~csvOk)

\* app.get('/') (part_002 458-472): runs to completion, every file call is
\* synchronous.
HandlePage ==
    /\ pc = "serve"
    /\ \E r \in inflight, held \in GeoLookups, rnd1 \in Randoms, rnd2 \in Randoms,
          writeOk \in BOOLEAN, csvOk \in BOOLEAN :
          /\ r.route = "page"
          /\ \E now \in {Len(handled) + 1} :
             \E cookie \in {sessionCookie(r.req.cookie,
                                           generateSessionId(now, rnd1))} :
             \E userData \in {collectEnhancedUserData(variant, r, now, held,
                                                       generateSessionId(now, rnd2))} :
             \E save \in {saveUserData(logFile, userData, writeOk)} :
                 /\ logFile' = save.file
                 /\ csvFile' = IF save.saved
                                THEN logToCSV(csvFile, userData, csvOk)
                                ELSE csvFile
                 /\ response' =
                        [NoResponse EXCEPT
                            !.id = r.id, !.route = "page",
                            !.status = IF save.threw THEN 500 ELSE 200,
                            !.body = IF save.threw THEN "error" ELSE "index.html",
                            !.setCookie = cookie]
                 /\ built' = [id |-> r.id,
                              cookie |-> r.req.cookie,
                              ua |-> r.req.ua,
                              lookup |-> geoipLookup(userData.ip, held),
                              userData |-> <<userData>>]
                 /\ handled' = Ran(r, save.saved, saveFailed(save, writeOk, csvOk))
                 /\ inflight' = inflight \ {r}
    /\ UNCHANGED <<variant, arg, ret, pc>>

\* app.post('/api/collect') (part_002 423-455)
HandleCollect ==
    /\ pc = "serve"
    /\ \E r \in inflight, held \in GeoLookups, rnd \in Randoms,
          writeOk \in BOOLEAN, csvOk \in BOOLEAN :
          /\ r.route = "collect"
          /\ \E now \in {Len(handled) + 1} :
             \E userData \in {collectEnhancedUserData(variant, r, now, held,
                                                       generateSessionId(now, rnd))} :
             \E save \in {saveUserData(logFile, userData, writeOk)} :
                 /\ logFile' = save.file
                 /\ csvFile' = IF save.saved
                                THEN logToCSV(csvFile, userData, csvOk)
                                ELSE csvFile
                 /\ response' =
                        IF save.threw
                        THEN [NoResponse EXCEPT
                                !.id = r.id, !.route = "collect", !.status = 500,
                                !.body = "json"]
                        ELSE [NoResponse EXCEPT
                                !.id = r.id, !.route = "collect", !.status = 200,
                                !.body = "json", !.success = TRUE,
                                !.sessionId = userData.sessionId,
                                !.timestamp = userData.timestamp,
                                !.ip = IF ownResolver(variant)
                                       THEN userData.ip ELSE undefined,
                                !.isLocalhost = userData.isLocalhost]
                 /\ built' = [id |-> r.id,
                              cookie |-> r.req.cookie,
                              ua |-> r.req.ua,
                              lookup |-> geoipLookup(userData.ip, held),
                              userData |-> <<userData>>]
                 /\ handled' = Ran(r, save.saved, saveFailed(save, writeOk, csvOk))
                 /\ inflight' = inflight \ {r}
    /\ UNCHANGED <<variant, arg, ret, pc>>

\* A faulty DELETE: logs.json is left as it is.
emptiedLog_unchanged(file) == file

\* fs.writeFileSync(logFile, JSON.stringify([], null, 2)) (part_002 601)
emptiedLog(file) == [kind |-> "array", logs |-> <<>>]

\* A faulty DELETE: unlinkSync without asking whether the file exists.
unlinks_always(csv) == TRUE

\* if (fs.existsSync(csvFile)) (part_002 602)
unlinks(csv) == csv.exists

\* The try block of app.delete('/api/logs') (part_002 597-609), with fault
\* the file call that fails, if one does: rewrite logs.json, remove
\* logs.csv if it is to be removed (unlinkSync throws on an absent file),
\* answer; the catch answers 500.
clearLogs(file, csv, fault) ==
    IF fault = "write"
    THEN [ok |-> FALSE, file |-> file, csv |-> csv]
    ELSE IF unlinks(csv) /\ (~csv.exists \/ fault = "unlink")
         THEN [ok |-> FALSE, file |-> emptiedLog(file), csv |-> csv]
         ELSE [ok |-> TRUE, file |-> emptiedLog(file),
               csv |-> IF unlinks(csv) THEN AbsentCsv ELSE csv]

\* app.delete('/api/logs') (part_002 596-616)
HandleDelete ==
    /\ pc = "serve"
    /\ \E r \in inflight, fault \in {"none", "write", "unlink"} :
          /\ r.route = "delete"
          /\ fault = "unlink" => csvFile.exists
          /\ \E cleared \in {clearLogs(logFile, csvFile, fault)} :
                /\ logFile' = cleared.file
                /\ csvFile' = cleared.csv
                /\ response' =
                      [NoResponse EXCEPT
                          !.id = r.id, !.route = "delete", !.body = "json",
                          !.status = IF cleared.ok THEN 200 ELSE 500,
                          !.success = cleared.ok]
                /\ handled' = Ran(r, fault # "write", fault # "none")
          /\ built' = [NothingBuilt EXCEPT !.id = r.id]
          /\ inflight' = inflight \ {r}
    /\ UNCHANGED <<variant, arg, ret, pc>>

\* A route that only reads: it answers and leaves both files as they are.
Answer(r, view) ==
    /\ response' = [view EXCEPT !.id = r.id]
    /\ built' = [NothingBuilt EXCEPT !.id = r.id]
    /\ handled' = Ran(r, FALSE, FALSE)
    /\ inflight' = inflight \ {r}
    /\ UNCHANGED <<variant, logFile, csvFile, arg, ret, pc>>

\* app.get('/api/logs') (part_002 475-538)
HandleLogs ==
    /\ pc = "serve"
    /\ \E r \in inflight :
          /\ r.route = "logs"
          /\ Answer(r, apiLogs(variant, logFile))

\* app.get('/api/stats') (part_002 541-593)
HandleStats ==
    /\ pc = "serve"
    /\ \E r \in inflight :
          /\ r.route = "stats"
          /\ Answer(r, apiStats(variant, logFile))

\* app.get('/api/logs/csv') (part_002 619-637)
HandleCsv ==
    /\ pc = "serve"
    /\ \E r \in inflight :
          /\ r.route = "csv"
          /\ Answer(r, apiLogsCsv(csvFile))

Next ==
    \/ Receive
    \/ HandlePage
    \/ HandleCollect
    \/ HandleDelete
    \/ HandleLogs
    \/ HandleStats
    \/ HandleCsv

Spec == Init /\ [][Next]_vars

(***************************************************************************)
(* app.get('/api/logs') on logs of every length up to MaxStored, which is  *)
(* past the longest window a variant returns.                              *)
(***************************************************************************)
MaxStored == 102

Visitors ==
    <<NoHeaders, Browser,
      CHOOSE req \in ServedRequests : req \notin {NoHeaders, Browser}>>

\* The k-th record of a log the server wrote earlier: the visitors take
\* turns, starting with visitor first, and every other address is found
\* in the geo database.
storedRecord(v, k, first) ==
    collectEnhancedUserData(v, [id |-> k, req |-> Visitors[1 + ((k + first) % 3)]], k,
                            IF k % 2 = 0 THEN NoGeo
                            ELSE <<[country |-> "US", region |-> ""]>>,
                            generateSessionId(k, "a"))

storedLogs(v, n, first) == [k \in 1..n |-> storedRecord(v, k, first)]

\* The CSV mirror of such a log: the header and one row per record.
storedCsv(logs) ==
    IF logs = <<>>
    THEN AbsentCsv
    ELSE [exists |-> TRUE,
          lines |-> <<CsvHeader>>
                        \o [k \in 1..Len(logs) |-> [rid |-> logs[k].rid, ip |-> logs[k].ip]]]

InitLogsView ==
    /\ variant \in {v \in Variants : startsUp(v)}
    /\ \E n \in 0..MaxStored, first \in 0..2 :
          /\ logFile = [kind |-> "array", logs |-> storedLogs(variant, n, first)]
          /\ inflight = {[id |-> n + 1, route |-> "logs", req |-> NoHeaders,
                          arrived |-> 0]}
    /\ csvFile = storedCsv(logFile.logs)
    /\ handled = <<>>
    /\ response = NoResponse
    /\ built = NothingBuilt
    /\ arg = undefined
    /\ ret = undefined
    /\ pc = "serve"

NextLogsView == HandleLogs

SpecLogsView == InitLogsView /\ [][NextLogsView]_vars

(***************************************************************************)
(* Properties of the stored records and of the log.                        *)
(***************************************************************************)
Placeholder == <<[country |-> "Localhost", region |-> "Development"]>>

\* C7: when the geo lookup misses, the record built for a local or private
\* address has the placeholder geo (country "Localhost", region
\* "Development") and the record built for a public address has geo null;
\* when the lookup hits, the record's geo is not the placeholder.
C7_GeoPlaceholderOnLocalMiss ==
    built.userData # <<>> =>
        LET u == built.userData[1]
        IN  /\ (built.lookup = NoGeo /\ truthy(u.ip) /\ isLocalhost(u.ip))
                  => u.geo = Placeholder
            /\ (built.lookup = NoGeo /\ ~isLocalhost(u.ip)) => u.geo = NoGeo
            /\ built.lookup # NoGeo => u.geo # NoGeo /\ u.geo # Placeholder

\* C8: every record stored in the log has a network.ip that is neither
\* null nor empty.
C8_StoredRecordHasIP ==
    \A k \in 1..Len(Logs) :
        Logs[k].ip # null /\ Logs[k].ip # undefined /\ Logs[k].ip # ""

IsSave(e) == e.route # "delete" /\ e.saved
IsTruncation(e) == e.route = "delete" /\ e.saved
IsOld(log) == log.rid = 0
IsNew(log) == log.rid # 0
NoDeleteRun == \A k \in 1..Len(handled) : handled[k].route # "delete"

\* What one step does to the log when it is no DELETE: a successful
\* saveUserData appends the record just built and keeps every earlier
\* record in place, anything else leaves the file as it was.
C9_Step ==
    IF handled' = handled
    THEN logFile' = logFile
    ELSE LET e == handled'[Len(handled')]
         IN  e.route # "delete" =>
                IF e.saved
                THEN /\ logFile'.kind = "array"
                     /\ Logs' = Append(Logs, built'.userData[1])
                ELSE logFile' = logFile

\* C9: the log is append-only.  Every GET / and POST /api/collect that
\* saves adds exactly its record at the end and leaves the earlier records
\* unchanged and in order; with no DELETE so far, the log holds one record
\* per successful save after those it held at the start, in the order the
\* handlers ran, whatever session
\* the records belong to.
C9_AppendOnly ==
    /\ [][C9_Step]_vars
    /\ [](NoDeleteRun =>
            LET saves == SelectSeq(handled, IsSave)
                kept == SelectSeq(Logs, IsOld)
                added == SelectSeq(Logs, IsNew)
            IN  /\ Logs = kept \o added
                /\ Len(added) = Len(saves)
                /\ \A k \in 1..Len(added) : added[k].rid = saves[k].id)

\* Two saves of one session, both kept.
C9_Witness ==
    /\ NoDeleteRun
    /\ Len(handled) = 2
    /\ Len(Logs) = 2
    /\ Logs[1].sessionId = "sess_0_c"
    /\ Logs[2].sessionId = "sess_0_c"
    /\ IsNew(Logs[1])
    /\ IsNew(Logs[2])
    /\ Logs[1].rid # Logs[2].rid

\* Runs i and j of the handlers served overlapping requests: the request of
\* run j had reached the server before run i took place.
Overlapping(i, j) ==
    /\ i \in 1..Len(handled)
    /\ j \in 1..Len(handled)
    /\ i < j
    /\ handled[j].arrived < i

Kept(i) == \E n \in 1..Len(Logs) : Logs[n].rid = handled[i].id

NotTruncatedSince(i) ==
    \A k \in 1..Len(handled) : IsTruncation(handled[k]) => k < i

\* C10 as amended: no update is lost.  saveUserData reads, pushes and
\* rewrites synchronously inside one handler run, so the record of every
\* successful save since the last truncation is in the log, overlapping
\* requests included.
C10_NoLostUpdate ==
    \A i \in 1..Len(handled) :
        (IsSave(handled[i]) /\ NotTruncatedSince(i)) => Kept(i)

\* Two overlapping requests, both saved, both kept.
C10_Witness ==
    /\ Len(handled) = 2
    /\ Overlapping(1, 2)
    /\ IsSave(handled[1])
    /\ IsSave(handled[2])
    /\ Kept(1)
    /\ Kept(2)
    /\ Len(SelectSeq(Logs, IsNew)) = 2

\* C10 as stated: the lost-update race.  Once two overlapping requests have
\* both completed their save, the log contains only one of the two new
\* records.
C10_OverlappingSavesLoseOne ==
    \A i \in 1..Len(handled), j \in 1..Len(handled) :
        (Overlapping(i, j) /\ IsSave(handled[i]) /\ IsSave(handled[j])
            /\ NotTruncatedSince(i))
        => ~(Kept(i) /\ Kept(j))

(***************************************************************************)
(* Properties of the routes.                                               *)
(***************************************************************************)
Last(seq) == seq[Len(seq)]
Previous(seq) == seq[Len(seq) - 1]

\* C11: when a DELETE /api/logs has succeeded and the next handler to run
\* is GET /api/logs, it answers success with total 0 and no logs, whatever
\* the log held before the DELETE.
C11_EmptyAfterDelete ==
    /\ [][(response.route = "delete" /\ response.status = 200
             /\ response'.route = "logs")
          => (response'.status = 200 /\ response'.success
                /\ response'.total = <<0>> /\ response'.logs = <<>>)]_vars
    /\ []((response.route = "delete" /\ response.status = 200) => Logs = <<>>)

\* A DELETE that succeeded and the GET /api/logs that ran next.
C11_Witness ==
    /\ Len(handled) = 2
    /\ handled[1].route = "delete"
    /\ handled[1].saved
    /\ ~handled[1].io
    /\ response.id = handled[2].id
    /\ response.route = "logs"
    /\ response.total = <<0>>
    /\ response.logs = <<>>

\* C12: DELETE /api/logs is idempotent.  After a DELETE that succeeded the
\* log is the empty array and the CSV mirror is absent; a second DELETE
\* run next leaves both as they are and, unless a file call of its own
\* fails, gives the same success response.
C12_DeleteIdempotent ==
    /\ []((response.route = "delete" /\ response.status = 200)
            => (logFile = [kind |-> "array", logs |-> <<>>] /\ csvFile = AbsentCsv))
    /\ [][(response.route = "delete" /\ response.status = 200
             /\ response'.route = "delete")
          => /\ logFile' = logFile
             /\ csvFile' = csvFile
             /\ ~Last(handled').io
                   => response' = [response EXCEPT !.id = response'.id]]_vars

\* Two DELETEs in a row, both answered with success.
C12_Witness ==
    /\ Len(handled) = 2
    /\ handled[1].route = "delete"
    /\ handled[2].route = "delete"
    /\ ~handled[1].io
    /\ ~handled[2].io
    /\ response.id = handled[2].id
    /\ response.status = 200
    /\ response.success
    /\ logFile = [kind |-> "array", logs |-> <<>>]
    /\ csvFile = AbsentCsv

\* The runs that stored a record since the server started.
IsStore(run) == run.route \in {"page", "collect"} /\ run.saved
StoredSinceStart == SelectSeq(handled, IsStore) # <<>>
NoFileCallFailed == \A i \in 1..Len(handled) : ~handled[i].io
HeaderLines(lines) == {i \in 1..Len(lines) : lines[i] = CsvHeader}

LastRun == Last(handled)
Appended ==
    /\ LastRun.saved
    /\ Logs # <<>>
    /\ Last(Logs).rid = LastRun.id
WriteFailed == LastRun.io /\ ~LastRun.saved

\* C14: a POST /api/collect answers either 200 with success true, having
\* appended a record whose sessionId, timestamp, ip and isLocalhost are the
\* ones in the response, or 500 with success false.
C14_CollectResponse ==
    response.route = "collect"
        => \/ /\ response.status = 200
              /\ response.success
              /\ Appended
              /\ response.sessionId = Last(Logs).sessionId
              /\ response.timestamp = Last(Logs).timestamp
              /\ response.ip = Last(Logs).ip
              /\ response.isLocalhost = Last(Logs).isLocalhost
           \/ /\ response.status = 500
              /\ ~response.success
              /\ ~Appended

\* C15: when logs.json cannot be written, GET / still answers with the
\* page, and POST /api/collect answers 500 with success false.
C15_WriteFailureReported ==
    (handled # <<>> /\ WriteFailed)
        => /\ response.route = "page"
                => (response.status = 200 /\ response.body = "index.html")
           /\ response.route = "collect"
                => (response.status = 500 /\ ~response.success)

\* C16: every GET / is answered with index.html, whatever logs.json held
\* and whether or not it could be written.
C16_PageAlwaysServed ==
    response.route = "page"
        => (response.status = 200 /\ response.body = "index.html")

\* A step in which the handler of the given route runs.
RunOf(route) == handled' # handled /\ Last(handled').route = route

\* C17 as stated: every GET / appends one record and sets the sessionId
\* cookie exactly when the request carried none.
C17_OneRecordPerPageView ==
    response.route = "page"
        => /\ Appended
           /\ truthy(response.setCookie) <=> ~truthy(built.cookie)

\* C17: a GET / appends at most one record: the one it built, behind the
\* records the log held, when saveUserData gets to write the file and the
\* write succeeds, and none otherwise.  It sets the sessionId cookie exactly
\* when the request carried none, so a cookie the request carried is never
\* replaced.
C17_PageViewRecordAndCookie ==
    [][RunOf("page")
          => /\ Appended' <=> (response'.status = 200 /\ ~WriteFailed')
             /\ Appended' => Logs' = Append(Logs, built'.userData[1])
             /\ ~Appended' => logFile' = logFile
             /\ built'.userData[1].rid = response'.id
             /\ truthy(response'.setCookie) <=> ~truthy(built'.cookie)]_vars

\* A GET / without a cookie that appended its record behind an earlier one
\* and set the cookie.
C17_Witness ==
    /\ response.route = "page"
    /\ Appended
    /\ Len(Logs) = 2
    /\ ~truthy(built.cookie)
    /\ truthy(response.setCookie)

\* The identifiers generateSessionId can return during the latest run.
FreshIds == {generateSessionId(Len(handled), rnd) : rnd \in Randoms}

\* C18: the record built for a request with a non-empty sessionId cookie
\* has that cookie as its sessionId; the sessionId is a freshly generated
\* identifier only when the request has no cookie or an empty one.
C18_SessionIdFromCookie ==
    built.userData # <<>>
        => /\ truthy(built.cookie) => built.userData[1].sessionId = built.cookie
           /\ built.userData[1].sessionId \in FreshIds => ~truthy(built.cookie)
           /\ ~truthy(built.cookie) => built.userData[1].sessionId \in FreshIds

\* A stored record that carries the cookie of its request, behind a stored
\* record with a fresh identifier.
C18_Witness ==
    /\ handled # <<>>
    /\ Appended
    /\ Len(Logs) = 2
    /\ truthy(built.cookie)
    /\ Logs[2].sessionId = built.cookie
    /\ IsNew(Logs[1])
    /\ Logs[1].sessionId # built.cookie

RECURSIVE SumOver(_, _)
SumOver(counts, keys) ==
    IF keys = {}
    THEN 0
    ELSE LET k == CHOOSE x \in keys : TRUE
         IN  counts[k] + SumOver(counts, keys \ {k})
Total(counts) == SumOver(counts, DOMAIN counts)
Min(a, b) == IF a < b THEN a ELSE b

\* C19: GET /api/logs on a log of n records answers total n and, newest
\* first, the last min(n, N) records, with N 100 in part_002 and 50 in the
\* other variants; the counts of stats.browsers, stats.os, stats.devices
\* and stats.countries each sum to n.
C19_NewestFirstWindow ==
    response.route = "logs"
        => LET n == Len(Logs)
               shown == Min(n, IF variant = "part_002" THEN 100 ELSE 50)
           IN  /\ response.status = 200
               /\ response.success
               /\ response.total = <<n>>
               /\ Len(response.logs) = shown
               /\ \A i \in 1..shown : response.logs[i] = Logs[n + 1 - i]
               /\ Len(response.stats) = 1
               /\ Total(response.stats[1].browsers) = n
               /\ Total(response.stats[1].os) = n
               /\ Total(response.stats[1].devices) = n
               /\ Total(response.stats[1].countries) = n

\* The richest variant answering on a log of more than 100 records: the
\* 100 newest, the newest first, the first two records left out.
C19_Witness ==
    /\ response.route = "logs"
    /\ variant = "part_002"
    /\ Len(Logs) = 102
    /\ Len(response.logs) = 100
    /\ response.logs[1] = Logs[102]
    /\ response.logs[100] = Logs[3]
    /\ Cardinality(DOMAIN response.stats[1].browsers) = 2

\* C20: GET /api/stats answers hourly counts in which every stored record
\* is counted in one ISO-hour bucket, so that the counts sum to total, and
\* a uniqueVisitors count that is the number of distinct network.ip values
\* among the stored records.
C20_HourlyAndUniqueVisitors ==
    (response.route = "stats" /\ response.status = 200)
        => /\ response.total = <<Len(Logs)>>
           /\ Total(response.hourlyData) = Len(Logs)
           /\ \A i \in 1..Len(Logs) :
                 SubSeq(Logs[i].timestamp, 1, 13) \o ":00" \in DOMAIN response.hourlyData
           /\ response.uniqueVisitors
                 = <<Cardinality({Logs[i].ip : i \in 1..Len(Logs)})>>

\* C21: an append to a log file whose content is unparseable text or JSON
\* that is no array treats it as no prior logs: saveUserData throws nothing
\* to the handler and, its write succeeding, leaves the log holding the new
\* record alone.
C21_UnusableLogReset ==
    [][((RunOf("page") \/ RunOf("collect"))
           /\ logFile.kind \in {"corrupt", "nonarray"}
           /\ ~WriteFailed')
          => /\ response'.status = 200
             /\ Logs' = <<built'.userData[1]>>]_vars

\* C28: on a GET / without a sessionId cookie, the identifier the response
\* sets as the cookie is the sessionId of the record the request built.
C28_CookieIsRecordSession ==
    (response.route = "page" /\ truthy(response.setCookie))
        => built.userData[1].sessionId = response.setCookie

\* The row logToCSV writes for a record.
RowOf(log) == [rid |-> log.rid, ip |-> log.ip]

\* C29: while every file write has succeeded, logs.csv exists exactly when
\* the JSON log holds a record, and its rows after the header are the rows
\* of the records of the log, one each, in the order of the log.
C29_CsvMirrorsLog ==
    NoFileCallFailed
        => /\ csvFile.exists <=> Logs # <<>>
           /\ csvFile.exists
                 => /\ Len(csvFile.lines) = Len(Logs) + 1
                    /\ \A k \in 1..Len(Logs) : csvFile.lines[k + 1] = RowOf(Logs[k])

\* Two records appended since the start, by a GET / and a POST
\* /api/collect, and their two rows behind the header.
C29_Witness ==
    /\ Len(handled) = 2
    /\ NoFileCallFailed
    /\ {handled[1].route, handled[2].route} = {"page", "collect"}
    /\ Len(Logs) = 2
    /\ Len(csvFile.lines) = 3
    /\ csvFile.lines[3] = RowOf(Logs[2])

(***************************************************************************)
(* detectArchitecture of the server (part_002 296-313) and of the client   *)
(* (fingerprint.js 342-348), applied to the same user agents.              *)
(***************************************************************************)
UpperCase == "ABCDEFGHIJKLMNOPQRSTUVWXYZ"
LowerCase == "abcdefghijklmnopqrstuvwxyz"

\* String.prototype.toLowerCase
RECURSIVE toLowerCase(_)
toLowerCase(s) ==
    IF s = ""
    THEN ""
    ELSE LET i == indexOf(UpperCase, charAt(s, 1))
         IN  (IF i = 0 THEN charAt(s, 1) ELSE charAt(LowerCase, i))
                 \o toLowerCase(SubSeq(s, 2, Len(s)))

\* detectArchitecture(uaResult, userAgent) (part_002 296-313), with cpu
\* the value of uaResult.cpu?.architecture
detectArchitecture(cpu, userAgent) ==
    LET ua == toLowerCase(userAgent)
    IN  IF includes(ua, "win64") \/ includes(ua, "x64") \/ includes(ua, "amd64")
        THEN "x64"
        ELSE IF includes(ua, "win32") \/ includes(ua, "x86")
        THEN "x86"
        ELSE IF includes(ua, "arm64") \/ includes(ua, "aarch64")
        THEN "arm64"
        ELSE IF includes(ua, "arm")
        THEN "arm"
        ELSE IF truthy(cpu)
        THEN cpu
        ELSE "Unknown"

\* AdvancedDataCollector.detectArchitecture(ua) (fingerprint.js 342-348):
\* regular expressions that are plain alternatives, tested with their case
collectorDetectArchitecture(ua) ==
    IF includes(ua, "Win64") \/ includes(ua, "x64") \/ includes(ua, "WOW64")
           \/ includes(ua, "x86_64")
    THEN "x64"
    ELSE IF includes(ua, "Win32") \/ includes(ua, "x86")
    THEN "x86"
    ELSE IF includes(ua, "arm64") \/ includes(ua, "aarch64")
    THEN "arm64"
    ELSE IF includes(ua, "arm")
    THEN "arm"
    ELSE "Unknown"

MaxMarkers == 2

\* The platform tokens browsers put between the parentheses of a user
\* agent, and one that says nothing about the processor.
PlatformTokens ==
    {"Win64", "x64", "WOW64", "AMD64", "Linux x86_64", "Win32", "Linux i686",
     "x86", "arm64", "Linux aarch64", "Linux armv7l", "ARM", "Macintosh"}

RECURSIVE PlatformLists(_)
PlatformLists(n) ==
    IF n = 0
    THEN {""}
    ELSE LET shorter == PlatformLists(n - 1)
         IN  shorter \cup {IF s = "" THEN t ELSE s \o "; " \o t :
                              s \in shorter, t \in PlatformTokens}

\* The empty user agent and one per list of at most MaxMarkers tokens.
ArchitectureUserAgents ==
    {IF l = "" THEN "" ELSE "Mozilla/5.0 (" \o l \o ")" : l \in PlatformLists(MaxMarkers)}

\* uaResult.cpu?.architecture: what the parser package supplies, if
\* anything.
CpuArchitectures == {undefined, "amd64", "ia32"}

Pending == "<pending>"

InitArchitecture ==
    /\ variant = "part_002"
    /\ ServerIdle
    /\ arg \in [ua : ArchitectureUserAgents, cpu : CpuArchitectures]
    /\ ret = [server |-> Pending, client |-> Pending]
    /\ pc = "call"

CallDetectArchitecture ==
    /\ pc = "call"
    /\ ret.server = Pending
    /\ ret' = [ret EXCEPT !.server = detectArchitecture(arg.cpu, arg.ua)]
    /\ UNCHANGED <<arg, pc>>
    /\ ServerUntouched

CallCollectorDetectArchitecture ==
    /\ pc = "call"
    /\ ret.client = Pending
    /\ ret' = [ret EXCEPT !.client = collectorDetectArchitecture(arg.ua)]
    /\ UNCHANGED <<arg, pc>>
    /\ ServerUntouched

NextArchitecture == CallDetectArchitecture \/ CallCollectorDetectArchitecture

SpecArchitecture == InitArchitecture /\ [][NextArchitecture]_vars

\* The markers of the cascade, in lower case; x86_64 is a 64-bit marker.
Markers64 == {"win64", "x64", "amd64", "x86_64"}
Markers32 == {"win32", "x86"}
MarkersArm64 == {"arm64", "aarch64"}
MarkersArm == {"arm"}
HasMarker(ua, markers) == \E m \in markers : includes(toLowerCase(ua), m)

\* C24: detectArchitecture is an ordered cascade: x64 for a user agent with
\* a 64-bit marker whatever else it holds, else x86 for a 32-bit marker,
\* else arm64, else arm, else the parser's CPU architecture when there is
\* one, else Unknown; a user agent with x86_64 is never reported as x86.
C24_ArchitectureCascade ==
    ret.server # Pending
        => ret.server =
              IF HasMarker(arg.ua, Markers64) THEN "x64"
              ELSE IF HasMarker(arg.ua, Markers32) THEN "x86"
              ELSE IF HasMarker(arg.ua, MarkersArm64) THEN "arm64"
              ELSE IF HasMarker(arg.ua, MarkersArm) THEN "arm"
              ELSE IF truthy(arg.cpu) THEN arg.cpu
              ELSE "Unknown"

\* C30: for a user agent for which the parser supplies no CPU field, the
\* server's and the client's detectArchitecture return the same label.
C30_DetectorsAgree ==
    (arg.cpu = undefined /\ ret.server # Pending /\ ret.client # Pending)
        => ret.server = ret.client

\* C23: in every record the display fields of browser, os and device are
\* what the user-agent parser found, or else the literal "Unknown" (the
\* default type for the device), and are never null or undefined, also for
\* a request without a user agent.
C23_DisplayFieldsNeverNull ==
    built.userData # <<>>
        => LET parsed == UAParser_getResult(IF truthy(built.ua) THEN built.ua ELSE "")
               u == built.userData[1]
           IN  /\ u.browser = orUnknown(parsed.browser)
               /\ u.os = orUnknown(parsed.os)
               /\ truthy(u.device)
               /\ \A i \in 1..Len(Logs) : truthy(Logs[i].browser) /\ truthy(Logs[i].os)

(***************************************************************************)
(* collectEnhancedUserData with its enrichment steps, applied on its own:  *)
(* the geo lookup of every variant and the fingerprint collector of        *)
(* server.js (59-74).                                                      *)
(***************************************************************************)
\* Of the globals generateBrowserFingerprint reads, the ones the runtime
\* defines: Node has no screen, and a navigator from version 21 on.
NodeGlobals == {{}, {"navigator"}}

\* generateBrowserFingerprint (fingerprint.js 54-72): reading a global
\* that is not defined throws a ReferenceError.
generateBrowserFingerprint(globals) ==
    IF {"navigator", "screen"} \subseteq globals THEN "hash" ELSE "ReferenceError"

\* getCanvasFingerprint (fingerprint.js 9-42): the catch turns a failure
\* of the canvas into { error }.
getCanvasFingerprint(canvasOk) == IF canvasOk THEN "dataHash" ELSE "error"

\* collectAllFingerprintData (fingerprint.js 75-115): no try around the
\* calls.
collectAllFingerprintData(globals, canvasOk) ==
    IF generateBrowserFingerprint(globals) = "ReferenceError"
    THEN [threw |-> TRUE, canvas |-> undefined]
    ELSE [threw |-> FALSE, canvas |-> getCanvasFingerprint(canvasOk)]

\* const fingerprint = fingerprintCollector.collectAllFingerprintData(req)
\* (server.js 73); the other variants have no collector.
collectsFingerprint(v) == v = "server.js"

\* What a call of collectEnhancedUserData gives its caller: the record, or
\* the exception of the collector.
enhancedUserData(v, r, now, held, freshId, globals, canvasOk) ==
    IF collectsFingerprint(v) /\ collectAllFingerprintData(globals, canvasOk).threw
    THEN [threw |-> TRUE, userData |-> <<>>]
    ELSE [threw |-> FALSE,
          userData |-> <<collectEnhancedUserData(v, r, now, held, freshId)>>]

InitEnrichment ==
    /\ variant \in Variants
    /\ ServerIdle
    /\ arg \in [req : ServedRequests, held : GeoLookups, globals : NodeGlobals,
                canvasOk : BOOLEAN]
    /\ ret = undefined
    /\ pc = "call"

CallCollectEnhancedUserData ==
    /\ pc = "call"
    /\ ret' = enhancedUserData(variant, [id |-> 1, req |-> arg.req], 1, arg.held,
                               generateSessionId(1, "a"), arg.globals, arg.canvasOk)
    /\ pc' = "return"
    /\ UNCHANGED arg
    /\ ServerUntouched

NextEnrichment == CallCollectEnhancedUserData

SpecEnrichment == InitEnrichment /\ [][NextEnrichment]_vars

\* C22: no failure of an enrichment step aborts the building of a record:
\* whether the geo lookup misses and whether the fingerprint collector
\* fails, collectEnhancedUserData returns a record, with null (or the
\* local placeholder) as geo after a miss.
C22_EnrichmentNeverAborts ==
    pc = "return"
        => /\ ~ret.threw
           /\ ret.userData # <<>>
           /\ geoipLookup(ret.userData[1].ip, arg.held) = NoGeo
                 => ret.userData[1].geo \in {NoGeo, Placeholder}

(***************************************************************************)
(* getCanvasFingerprint of the server's collector (fingerprint.js 9-42)    *)
(* and of the page's script (script.js 241-264), applied to the encoded    *)
(* image string canvas.toDataURL() returns.  A 32-bit integer is kept as   *)
(* its two 16-bit halves, so that no intermediate value exceeds the        *)
(* integers of the model checker.                                          *)
(***************************************************************************)
MaxChars == 7

Half == 65536

\* String.prototype.charCodeAt for the characters of the strings below
charCode == [c \in {"A", "z", "/"} |-> CASE c = "A" -> 65 [] c = "z" -> 122 [] OTHER -> 47]

\* The encoded image strings: every string of at most n of the characters.
RECURSIVE DataUrls(_)
DataUrls(n) ==
    IF n = 0
    THEN {""}
    ELSE LET shorter == DataUrls(n - 1)
         IN  shorter \cup {s \o c : s \in shorter, c \in DOMAIN charCode}

\* hash << 5 on a 32-bit integer: the bits shifted out are lost
shiftLeft5(h) ==
    [lo |-> (h.lo * 32) % Half,
     hi |-> (h.hi * 32 + (h.lo * 32) \div Half) % Half]

\* ((hash << 5) - hash) + code; hash = hash & hash (fingerprint.js 30-31):
\* the difference and the sum are exact, and the & keeps their low 32 bits
hashStep(h, code) ==
    LET s == shiftLeft5(h)
        lo == s.lo - h.lo + code
    IN  [lo |-> lo % Half,
         hi |-> (s.hi - h.hi + (IF lo < 0 THEN -1 ELSE lo \div Half)) % Half]

\* The value of the 32 bits as the signed integer JavaScript makes of them
toInt32(h) == (IF h.hi >= Half \div 2 THEN h.hi - Half ELSE h.hi) * Half + h.lo

\* for (let i = 0; i < dataUrl.length; i++) ... (fingerprint.js 28-32),
\* from the hash reached before position i
RECURSIVE hashFrom(_, _, _)
hashFrom(h, dataUrl, i) ==
    IF i > Len(dataUrl)
    THEN h
    ELSE hashFrom(hashStep(h, charCode[charAt(dataUrl, i)]), dataUrl, i + 1)

\* getCanvasFingerprint: dataHash in fingerprint.js (27-34), and
\* canvas.toDataURL().length in script.js (260)
canvasFingerprint(file, dataUrl) ==
    IF file = "fingerprint.js"
    THEN toInt32(hashFrom([lo |-> 0, hi |-> 0], dataUrl, 1))
    ELSE Len(dataUrl)

InitCanvas ==
    /\ variant = "part_002"
    /\ ServerIdle
    /\ arg \in [file : {"fingerprint.js", "script.js"}, dataUrl : DataUrls(MaxChars)]
    /\ ret = undefined
    /\ pc = "call"

CallGetCanvasFingerprint ==
    /\ pc = "call"
    /\ ret' = canvasFingerprint(arg.file, arg.dataUrl)
    /\ pc' = "return"
    /\ UNCHANGED arg
    /\ ServerUntouched

NextCanvas == CallGetCanvasFingerprint

SpecCanvas == InitCanvas /\ [][NextCanvas]_vars

\* 31 * h + code on the low 32 bits, by multiplication
Times31Plus(h, code) ==
    [lo |-> (h.lo * 31 + code) % Half,
     hi |-> (h.hi * 31 + (h.lo * 31 + code) \div Half) % Half]

\* The fold of 31 * h + c over the first n characters, wrapped to 32 bits
RECURSIVE Fold31(_, _)
Fold31(dataUrl, n) ==
    IF n = 0
    THEN [lo |-> 0, hi |-> 0]
    ELSE Times31Plus(Fold31(dataUrl, n - 1), charCode[charAt(dataUrl, n)])

\* C26: the canvas fingerprint of an encoded image string is the fold of
\* 31 * h + c over its characters, wrapped into the signed 32-bit range.
C26_CanvasHashIsFold31 ==
    pc = "return"
        => /\ ret = toInt32(Fold31(arg.dataUrl, Len(arg.dataUrl)))
           /\ ret >= (0 - Half \div 2) * Half
           /\ ret <= (Half \div 2 - 1) * Half + (Half - 1)

(***************************************************************************)
(* getWebRTCIP of the page's script (script.js 129-171) and of             *)
(* fingerprint.js (208-249): the promise executor, the callbacks it        *)
(* installs and the events the browser delivers to them.                   *)
(***************************************************************************)
MaxCandidates == 3

LowerHexDigits == DecimalDigits \cup {"a", "b", "c", "d", "e", "f"}

\* The longest run of at most max characters of chars that s holds from
\* position i: what a greedy {1,max} takes
run(s, i, chars, max) ==
    SetMax({n \in 0..max : \A k \in 0..(n - 1) :
                i + k <= Len(s) /\ charAt(s, i + k) \in chars})

\* A group of 1 to max characters of chars at position i, followed more
\* times by sep and such a group: the position behind the match, 0 when
\* there is none.  A shorter first group cannot help, since what follows
\* it is then a character of chars and not sep.
RECURSIVE groupsAt(_, _, _, _, _, _)
groupsAt(s, i, chars, max, sep, more) ==
    LET n == run(s, i, chars, max)
    IN  IF n = 0 THEN 0
        ELSE IF more = 0 THEN i + n
        ELSE IF i + n <= Len(s) /\ charAt(s, i + n) = sep
        THEN groupsAt(s, i + n + 1, chars, max, sep, more - 1)
        ELSE 0

\* /([0-9]{1,3}(\.[0-9]{1,3}){3}|[a-f0-9]{1,4}(:[a-f0-9]{1,4}){7})/ tried
\* at position i: the first alternative, then the second
regexAt(s, i) ==
    LET quad == groupsAt(s, i, DecimalDigits, 3, ".", 3)
    IN  IF quad # 0 THEN quad ELSE groupsAt(s, i, LowerHexDigits, 4, ":", 7)

\* candidate.match(regex): match[1] of the leftmost match, null without
candidateMatch(candidate) ==
    LET starts == {i \in 1..Len(candidate) : regexAt(candidate, i) # 0}
    IN  IF starts = {}
        THEN null
        ELSE SubSeq(candidate, SetMin(starts), regexAt(candidate, SetMin(starts)) - 1)

\* event.candidate.candidate of the events a browser delivers: two host
\* candidates of one address, an mDNS name, a reflexive candidate, and an
\* IPv6 host candidate.
CandidateTexts ==
    {"candidate:1 1 udp 2113937151 192.168.1.5 54321 typ host",
     "candidate:2 1 tcp 1518280447 192.168.1.5 9 typ host tcptype active",
     "candidate:3 1 udp 2113939711 6f1c2a9e-1b2c.local 54400 typ host",
     "candidate:4 1 udp 1677729535 203.0.113.7 61000 typ srflx raddr 192.168.1.5",
     "candidate:5 1 udp 2113932031 fe80:0:0:0:a1b2:c3d4:e5f6:7 54322 typ host"}

candidateMatchOf == [candidate \in CandidateTexts |-> candidateMatch(candidate)]

\* A faulty handler: every matched address is pushed.
pushUnique_always(ips, ip) == Append(ips, ip)

\* if (ips.indexOf(ip) === -1) ips.push(ip) (script.js 161)
pushUnique(ips, ip) ==
    IF \E k \in 1..Len(ips) : ips[k] = ip THEN ips ELSE Append(ips, ip)

\* The value a resolve call passes: null, a new empty array, or the array
\* ips itself.
\* resolve(null) in script.js (136, 146), resolve([]) in fingerprint.js
\* (215, 225)
noResults(file) == IF file = "script.js" THEN "null" ELSE "empty"

\* resolve(ips.length > 0 ? ips : null) in script.js (151, 168),
\* resolve(ips) in fingerprint.js (230, 246)
collected(file, ips) ==
    IF file = "script.js" /\ ips = <<>> THEN "null" ELSE "ips"

\* resolve(value): the first call settles the promise, later calls do
\* nothing.
resolve(promise, value) ==
    IF promise.settled
    THEN promise
    ELSE [promise EXCEPT !.settled = TRUE, !.value = value]

ProbePending == [settled |-> FALSE, value |-> "none", ips |-> <<>>, events |-> 0]

InitProbe ==
    /\ variant = "part_002"
    /\ ServerIdle
    /\ arg \in [file : {"script.js", "fingerprint.js"}, supported : BOOLEAN]
    /\ ret = ProbePending
    /\ pc = [executor |-> "start", offer |-> "none", conn |-> "none", timer |-> "none"]

\* The executor of the promise: without RTCPeerConnection it resolves at
\* once; with it, it opens the connection, asks for an offer, installs
\* onicecandidate and arms the timer.
ProbeExecutor ==
    /\ pc.executor = "start"
    /\ IF arg.supported
       THEN /\ pc' = [executor |-> "done", offer |-> "pending", conn |-> "open",
                      timer |-> "armed"]
            /\ ret' = ret
       ELSE /\ pc' = [pc EXCEPT !.executor = "done"]
            /\ ret' = resolve(ret, noResults(arg.file))
    /\ UNCHANGED arg
    /\ ServerUntouched

\* createOffer or setLocalDescription rejects: .catch(() => resolve(null))
ProbeOfferRejected ==
    /\ pc.offer = "pending"
    /\ pc' = [pc EXCEPT !.offer = "rejected"]
    /\ ret' = resolve(ret, noResults(arg.file))
    /\ UNCHANGED arg
    /\ ServerUntouched

\* setLocalDescription succeeds: the browser starts gathering candidates.
ProbeOfferApplied ==
    /\ pc.offer = "pending"
    /\ pc.conn = "open"
    /\ pc' = [pc EXCEPT !.offer = "applied"]
    /\ UNCHANGED <<arg, ret>>
    /\ ServerUntouched

\* pc.onicecandidate with a candidate; a closed connection delivers none.
ProbeCandidate ==
    /\ pc.offer = "applied"
    /\ pc.conn = "open"
    /\ ret.events < MaxCandidates
    /\ \E candidate \in CandidateTexts :
          ret' = [ret EXCEPT
                     !.events = @ + 1,
                     !.ips = IF candidateMatchOf[candidate] = null
                             THEN @
                             ELSE pushUnique(@, candidateMatchOf[candidate])]
    /\ UNCHANGED <<arg, pc>>
    /\ ServerUntouched

\* pc.onicecandidate without a candidate: the end of the gathering
ProbeEndOfCandidates ==
    /\ pc.offer = "applied"
    /\ pc.conn = "open"
    /\ pc' = [pc EXCEPT !.conn = "closed"]
    /\ ret' = resolve(ret, collected(arg.file, ret.ips))
    /\ UNCHANGED arg
    /\ ServerUntouched

\* The callback of setTimeout(..., 1000)
ProbeTimeout ==
    /\ pc.timer = "armed"
    /\ pc' = [pc EXCEPT !.timer = "fired", !.conn = "closed"]
    /\ ret' = resolve(ret, collected(arg.file, ret.ips))
    /\ UNCHANGED arg
    /\ ServerUntouched

NextProbe ==
    \/ ProbeExecutor
    \/ ProbeOfferRejected
    \/ ProbeOfferApplied
    \/ ProbeCandidate
    \/ ProbeEndOfCandidates
    \/ ProbeTimeout

\* The executor runs when the promise is made, and an armed timer fires.
SpecProbe ==
    /\ InitProbe
    /\ [][NextProbe]_vars
    /\ WF_vars(ProbeExecutor)
    /\ WF_vars(ProbeTimeout)

\* What a reader of the settled promise sees.
Resolved ==
    CASE ret.value = "null" -> [isNull |-> TRUE, list |-> <<>>]
      [] ret.value = "empty" -> [isNull |-> FALSE, list |-> <<>>]
      [] OTHER -> [isNull |-> FALSE, list |-> ret.ips]

\* C27: the promise of getWebRTCIP is resolved in every execution, at the
\* latest when the timer fires; it is resolved with no results (null in
\* script.js, the empty list in fingerprint.js) when no address was
\* collected; events after the resolution do not change what it holds;
\* and the collected list holds no address twice.
C27_ProbeCompletes ==
    /\ <>ret.settled
    /\ [](pc.timer = "fired" => ret.settled)
    /\ []((ret.settled /\ ret.ips = <<>>)
            => Resolved = [isNull |-> arg.file = "script.js", list |-> <<>>])
    /\ [][ret.settled => (ret'.settled /\ Resolved' = Resolved)]_vars
    /\ [](\A j, k \in 1..Len(ret.ips) : ret.ips[j] = ret.ips[k] => j = k)

\* Resolved by the timer with two addresses, after a third candidate that
\* repeated one of them or held none.
C27_Witness ==
    /\ pc.timer = "fired"
    /\ pc.offer = "applied"
    /\ ret.settled
    /\ ret.events = 3
    /\ Resolved.list = <<"192.168.1.5", "203.0.113.7">>

(***************************************************************************)
(* detectProxyVPN (part_002 106-148), applied to the headers it reads and  *)
(* the address it is given.                                                *)
(***************************************************************************)
\* headers['via'] || headers['x-proxy-id'] || headers['x-forwarded-proto']
\* (part_002 118)
proxyHeaders == {"via", "x-proxy-id", "x-forwarded-proto"}

\* A faulty list: cf-ipcountry is not looked at.
cloudflareHeaders_rayOnly == {"cf-ray"}

\* headers['cf-ray'] || headers['cf-ipcountry'] (part_002 124)
cloudflareHeaders == {"cf-ray", "cf-ipcountry"}

\* knownVPNPatterns (part_002 131-137): each /^a\.b\./ as the text it
\* matches at the start
knownVPNPatterns == <<"104.16.", "172.64.", "185.159.", "192.110.", "209.95.">>

\* pattern.test(ip): a value that is no string is tested as its text
patternTest(pattern, ip) ==
    startsWith(IF ip = null THEN "null" ELSE ip, pattern)

\* detectProxyVPN (part_002 106-148)
detectProxyVPN(headers, ip) ==
    LET viaProxy == \E h \in proxyHeaders : truthy(headers[h])
        viaCloudflare == \E h \in cloudflareHeaders : truthy(headers[h])
        matching == {k \in 1..Len(knownVPNPatterns) : patternTest(knownVPNPatterns[k], ip)}
    IN  [usingVPN |-> matching # {},
         usingProxy |-> viaProxy \/ viaCloudflare,
         usingTor |-> FALSE,
         evidence |->
            (IF viaProxy THEN <<"Proxy headers detected">> ELSE <<>>)
            \o (IF viaCloudflare THEN <<"Cloudflare headers detected">> ELSE <<>>)
            \o (IF matching # {}
                THEN <<"IP matches VPN pattern: " \o knownVPNPatterns[SetMin(matching)]>>
                ELSE <<>>)]

ProxyHeaderNames == proxyHeaders \cup {"cf-ray", "cf-ipcountry"}

\* A header is absent, present without a value, or present with one.
ProxyHeaderValues == {undefined, "", "1.1 edge"}

ProxyAddresses == {null, "127.0.0.1", "203.0.113.5", "104.16.4.4", "172.64.0.9"}

InitProxy ==
    /\ variant = "part_002"
    /\ ServerIdle
    /\ arg \in [headers : [ProxyHeaderNames -> ProxyHeaderValues], ip : ProxyAddresses]
    /\ ret = undefined
    /\ pc = "call"

CallDetectProxyVPN ==
    /\ pc = "call"
    /\ ret' = detectProxyVPN(arg.headers, arg.ip)
    /\ pc' = "return"
    /\ UNCHANGED arg
    /\ ServerUntouched

NextProxy == CallDetectProxyVPN

SpecProxy == InitProxy /\ [][NextProxy]_vars

Present(headers) == {h \in ProxyHeaderNames : headers[h] # undefined}
Valued(headers) == {h \in ProxyHeaderNames : truthy(headers[h])}
IsHeaderEvidence(e) == e \in {"Proxy headers detected", "Cloudflare headers detected"}

\* C25 as stated: usingProxy is true exactly when one of via, x-proxy-id,
\* x-forwarded-proto, cf-ray, cf-ipcountry is present, and the evidence
\* holds one string per header that is present.
C25_EvidencePerHeader ==
    pc = "return"
        => /\ ret.usingProxy <=> Present(arg.headers) # {}
           /\ Len(SelectSeq(ret.evidence, IsHeaderEvidence))
                 = Cardinality(Present(arg.headers))

\* C25: usingProxy is true exactly when one of via, x-proxy-id,
\* x-forwarded-proto, cf-ray, cf-ipcountry has a non-empty value; the
\* evidence holds one string for the first three together and one for the
\* two Cloudflare headers together, in this order, followed by one string
\* when the address starts with a known pattern, and usingVPN says whether
\* it does.
C25_EvidencePerHeaderGroup ==
    pc = "return"
        => /\ ret.usingProxy <=> Valued(arg.headers) # {}
           /\ SelectSeq(ret.evidence, IsHeaderEvidence)
                 = (IF Valued(arg.headers) \cap {"via", "x-proxy-id", "x-forwarded-proto"} # {}
                    THEN <<"Proxy headers detected">> ELSE <<>>)
                   \o (IF Valued(arg.headers) \cap {"cf-ray", "cf-ipcountry"} # {}
                       THEN <<"Cloudflare headers detected">> ELSE <<>>)
           /\ ret.usingVPN <=> arg.ip \in {"104.16.4.4", "172.64.0.9"}
           /\ Len(ret.evidence)
                 = Len(SelectSeq(ret.evidence, IsHeaderEvidence))
                     + (IF ret.usingVPN THEN 1 ELSE 0)
           /\ ~ret.usingTor

\* via and cf-ipcountry present, on an address of a known range: both
\* flags and three evidence strings.
C25_Witness ==
    /\ pc = "return"
    /\ Valued(arg.headers) = {"via", "cf-ipcountry"}
    /\ ret.usingProxy
    /\ ret.usingVPN
    /\ Len(ret.evidence) = 3

====
